---------------------------- MODULE Spec2Model ----------------------------
(***************************************************************************)
(* Model of changesets/backfiller.py and changesets/api.py: the version    *)
(* resolver (node_version_at_time, way_version_at_time), the two           *)
(* backfillers (get_osm_object, thing_to_element) and the changeset        *)
(* assembler (process_changeset) with its CLI and HTTP entry points.       *)
(*                                                                         *)
(* The remote store behind pyosm's Api is data: per-entity histories.      *)
(* Fields the code only copies through (changeset, visible, user, uid,     *)
(* tags) are left out of the records; every field the code reads or        *)
(* computes with (id, version, timestamp, lat, lon, nds, members) is kept. *)
(* None is the empty sequence, a found object v is <<v>>.  A raised        *)
(* exception is the result [ok |-> FALSE], a returned value v is           *)
(* [ok |-> TRUE, val |-> v].                                               *)
(***************************************************************************)
EXTENDS Integers, Sequences, FiniteSets, TLC

VARIABLES
  node_history,       \* store: node id -> sequence of node versions
  way_history,        \* store: way id -> sequence of way versions
  rel_history,        \* store: relation id -> sequence of relation versions
  zero_reply,         \* store: what a request for a version below 1 yields
  call,               \* the function-level call last made
  ret,                \* what that call returned
  changeset_changes,  \* what a.get_changeset_download returned
  pc,                 \* position of process_changeset and its caller
  idx,                \* index of the next change of the for loop
  output,             \* output['changes'] built so far
  result,             \* what process_changeset returned (<<>>: nothing)
  file,               \* the CLI's output file (<<>>: not written)
  response            \* the HTTP response body (<<>>: none)

vars == <<node_history, way_history, rel_history, zero_reply, call, ret,
          changeset_changes, pc, idx, output, result, file, response>>

store == <<node_history, way_history, rel_history, zero_reply>>
request == <<changeset_changes, pc, idx, output, result, file, response>>

---------------------------------------------------------------------------
(* Bounds and input alphabets *)

MaxTs == 2
MaxLen == 3
MaxChanges == 2

Timestamps == 1..MaxTs
NodeIds == {1, 2}
WayIds == {1}
RelIds == {1}

Lat(id, v) == 10 * id + v
Lon(id, v) == 100 + 10 * id + v

NodeVersion(id, v, t) ==
  [id |-> id, version |-> v, timestamp |-> t, lat |-> Lat(id, v), lon |-> Lon(id, v)]

WayVersion(id, v, t, nds) ==
  [id |-> id, version |-> v, timestamp |-> t, nds |-> nds]

RelVersion(id, v, t, members) ==
  [id |-> id, version |-> v, timestamp |-> t, members |-> members]

Member(type, ref, role) == [type |-> type, ref |-> ref, role |-> role]

SeqsUpTo(S, n) == UNION {[1..k -> S] : k \in 0..n}

StrictlyIncreasing(ts) == \A i \in 1..(Len(ts) - 1) : ts[i] < ts[i + 1]

\* Timestamp sequences of an append-only history: non-empty, strictly increasing.
OrderedStamps == {ts \in SeqsUpTo(Timestamps, MaxTs) : Len(ts) >= 1 /\ StrictlyIncreasing(ts)}

\* Timestamp sequences in any order, the empty one included.
AnyStamps == SeqsUpTo(Timestamps, MaxLen)

NodeHistoryOf(id, ts) == [v \in 1..Len(ts) |-> NodeVersion(id, v, ts[v])]

WayHistoryOf(id, ts, nds) == [v \in 1..Len(ts) |-> WayVersion(id, v, ts[v], nds)]

RelHistoryOf(id, ts, members) == [v \in 1..Len(ts) |-> RelVersion(id, v, ts[v], members)]

---------------------------------------------------------------------------
(* Version resolver *)

\* The for loop of both resolvers: keep the last version at or before ts,
\* stop at the first version after it.
RECURSIVE ScanBroken(_, _, _, _)
ScanBroken(history, ts, i, version_to_use) ==
  IF i > Len(history) THEN version_to_use
  ELSE IF history[i].timestamp < ts
       THEN ScanBroken(history, ts, i + 1, <<history[i]>>)
       ELSE version_to_use

RECURSIVE ScanNoBreak(_, _, _, _)
ScanNoBreak(history, ts, i, version_to_use) ==
  IF i > Len(history) THEN version_to_use
  ELSE IF history[i].timestamp <= ts
       THEN ScanNoBreak(history, ts, i + 1, <<history[i]>>)
       ELSE ScanNoBreak(history, ts, i + 1, version_to_use)

RECURSIVE Scan(_, _, _, _)
Scan(history, ts, i, version_to_use) ==
  IF i > Len(history) THEN version_to_use
  ELSE IF history[i].timestamp <= ts
       THEN Scan(history, ts, i + 1, <<history[i]>>)
       ELSE version_to_use

get_node_history(node_id) ==
  IF node_id \in DOMAIN node_history THEN node_history[node_id] ELSE <<>>

get_way_history(way_id) ==
  IF way_id \in DOMAIN way_history THEN way_history[way_id] ELSE <<>>

node_version_at_time(node_id, ts) == Scan(get_node_history(node_id), ts, 1, <<>>)

way_version_at_time(way_id, ts) == Scan(get_way_history(way_id), ts, 1, <<>>)

---------------------------------------------------------------------------
(* Function-level calls: a behaviour makes one call on the store it starts with *)

NoCall == [fn |-> "none", kind |-> "none", id |-> 0, arg |-> 0]

IdleRequest ==
  /\ changeset_changes = <<>>
  /\ pc = "off"
  /\ idx = 0
  /\ output = <<>>
  /\ result = <<>>
  /\ file = <<>>
  /\ response = <<>>

QueryStamps == 0..(MaxTs + 1)

NodeVersionAtTime ==
  \E node_id \in NodeIds, ts \in QueryStamps :
    /\ call = NoCall
    /\ call' = [fn |-> "node_version_at_time", kind |-> "node", id |-> node_id, arg |-> ts]
    /\ ret' = node_version_at_time(node_id, ts)
    /\ UNCHANGED <<store, request>>

WayVersionAtTime ==
  \E way_id \in WayIds, ts \in QueryStamps :
    /\ call = NoCall
    /\ call' = [fn |-> "way_version_at_time", kind |-> "way", id |-> way_id, arg |-> ts]
    /\ ret' = way_version_at_time(way_id, ts)
    /\ UNCHANGED <<store, request>>

\* The resolver on one history of either kind, its timestamps in any order.
InitResolve ==
  /\ \E ts \in AnyStamps, kind \in {"node", "way"} :
       /\ node_history = [id \in NodeIds |->
                            IF kind = "node" /\ id = 1 THEN NodeHistoryOf(id, ts) ELSE <<>>]
       /\ way_history = [id \in WayIds |->
                            IF kind = "way" THEN WayHistoryOf(id, ts, <<>>) ELSE <<>>]
  /\ rel_history = [id \in RelIds |-> <<>>]
  /\ zero_reply = "notfound"
  /\ call = NoCall
  /\ ret = <<>>
  /\ IdleRequest

NextResolve == NodeVersionAtTime \/ WayVersionAtTime

SpecResolve == InitResolve /\ [][NextResolve]_vars

---------------------------------------------------------------------------
(* The resolver's claims *)

Range(f) == {f[i] : i \in DOMAIN f}

ResolverCall == call.fn \in {"node_version_at_time", "way_version_at_time"}

CalledHistory ==
  IF call.fn = "node_version_at_time" THEN get_node_history(call.id)
  ELSE get_way_history(call.id)

Stamps(history) == [i \in 1..Len(history) |-> history[i].timestamp]

\* The versions at or before T that no other version at or before T follows in time.
LatestAtOrBefore(history, T) ==
  {V \in Range(history) :
     /\ V.timestamp <= T
     /\ ~ \E W \in Range(history) : V.timestamp < W.timestamp /\ W.timestamp <= T}

\* C1: on a history whose timestamps strictly increase, the resolver returns
\* the one version V with V.timestamp <= T that no version V' with
\* V.timestamp < V'.timestamp <= T follows, and None when no version is at
\* or before T (an empty history, or T before the first version).
C1_ResolvesLatestAtOrBefore ==
  (ResolverCall /\ StrictlyIncreasing(Stamps(CalledHistory))) =>
    LET history == CalledHistory
        T == call.arg
    IN  IF \E V \in Range(history) : V.timestamp <= T
        THEN /\ Len(ret) = 1
             /\ LatestAtOrBefore(history, T) = {ret[1]}
        ELSE ret = <<>>

\* A two-version ordered history asked for a time between its versions.
C1_Witness ==
  /\ ResolverCall
  /\ StrictlyIncreasing(Stamps(CalledHistory))
  /\ Len(CalledHistory) >= 2
  /\ CalledHistory[2].timestamp > call.arg
  /\ ret = <<CalledHistory[1]>>

\* The length of the longest prefix of history whose timestamps are all <= T.
PrefixLen(history, T) ==
  CHOOSE k \in 0..Len(history) :
    /\ \A i \in 1..k : history[i].timestamp <= T
    /\ (k = Len(history) \/ history[k + 1].timestamp > T)

NonDecreasing(ts) == \A i \in 1..(Len(ts) - 1) : ts[i] <= ts[i + 1]

\* C10: on any history, ordered or not, the resolver returns the last element
\* of the longest prefix whose timestamps are all <= ts, None when the first
\* version is after ts; on a time-ordered history that is a version with the
\* greatest timestamp <= ts; and a version that follows a version after ts is
\* never returned, even when its own timestamp is <= ts.
C10_ResolvesLastOfLeadingPrefix ==
  ResolverCall =>
    LET history == CalledHistory
        T == call.arg
        k == PrefixLen(history, T)
    IN  /\ ret = IF k = 0 THEN <<>> ELSE <<history[k]>>
        /\ (Len(history) >= 1 /\ history[1].timestamp > T) => ret = <<>>
        /\ (NonDecreasing(Stamps(history)) /\ \E V \in Range(history) : V.timestamp <= T) =>
             /\ Len(ret) = 1
             /\ \A V \in Range(history) : V.timestamp <= T => V.timestamp <= ret[1].timestamp
        /\ \A j \in 1..Len(history) :
             (\E i \in 1..(j - 1) : history[i].timestamp > T) => ret # <<history[j]>>

\* An out-of-order history: a version at or before ts follows one after ts,
\* and the resolver returns an earlier version.
C10_Witness ==
  /\ ResolverCall
  /\ Len(ret) = 1
  /\ \E j \in 1..Len(CalledHistory) :
       /\ CalledHistory[j].timestamp <= call.arg
       /\ \E i \in 1..(j - 1) : CalledHistory[i].timestamp > call.arg

---------------------------------------------------------------------------
(* The store client's per-version fetch *)

Kinds == {"node", "way", "relation"}

IdsOf(kind) == CASE kind = "node" -> NodeIds [] kind = "way" -> WayIds [] OTHER -> RelIds

HistoryOf(kind, id) ==
  CASE kind = "node" -> get_node_history(id)
    [] kind = "way" -> get_way_history(id)
    [] OTHER -> IF id \in DOMAIN rel_history THEN rel_history[id] ELSE <<>>

\* a.get_node / a.get_way / a.get_relation (id, version): the stored version,
\* or nothing.  The code hands the store version - 1 unchecked, so a version
\* below 1 can be asked for; what comes back is the store's choice
\* (zero_reply): nothing, or the entity's latest version.
ApiGet(kind, id, version) ==
  LET history == HistoryOf(kind, id) IN
  IF version \in 1..Len(history) THEN <<history[version]>>
  ELSE IF version < 1 /\ zero_reply = "latest" /\ Len(history) >= 1
       THEN <<history[Len(history)]>>
       ELSE <<>>

---------------------------------------------------------------------------
(* get_osm_object *)

Raised == [ok |-> FALSE]

Ok(v) == [ok |-> TRUE, val |-> v]

\* The loop of get_geom_at_timestamp; v.lon on None raises.
RECURSIVE GeomLoop(_, _, _, _)
GeomLoop(nodes, timestamp, i, lat_lons) ==
  IF i > Len(nodes) THEN Ok(lat_lons)
  ELSE LET v == node_version_at_time(nodes[i], timestamp) IN
       IF v = <<>> THEN Raised
       ELSE GeomLoop(nodes, timestamp, i + 1, Append(lat_lons, <<v[1].lon, v[1].lat>>))

RECURSIVE GeomLoopSkipMissing(_, _, _, _)
GeomLoopSkipMissing(nodes, timestamp, i, lat_lons) ==
  IF i > Len(nodes) THEN Ok(lat_lons)
  ELSE LET v == node_version_at_time(nodes[i], timestamp) IN
       IF v = <<>> THEN GeomLoopSkipMissing(nodes, timestamp, i + 1, lat_lons)
       ELSE GeomLoopSkipMissing(nodes, timestamp, i + 1,
                                Append(lat_lons, <<v[1].lon, v[1].lat>>))

GeomSkipMissing(nodes, timestamp) == GeomLoopSkipMissing(nodes, timestamp, 1, <<>>)

GeomAtLatest(nodes, timestamp) == GeomLoop(nodes, MaxTs + 1, 1, <<>>)

get_geom_at_timestamp(nodes, timestamp) == GeomLoop(nodes, timestamp, 1, <<>>)

\* The member loop of the relation branch.  data['members'], member['type']
\* and way['nodes'] read the fields the rest of the file reads as
\* data.members, member.type and way.nds.  A way member's points are
\* resolved at data['timestamp'], the relation's timestamp; None['nodes']
\* raises when the way has no version at that time.
RECURSIVE MembersLoop(_, _, _, _)
MembersLoop(members, timestamp, i, out) ==
  IF i > Len(members) THEN Ok(out)
  ELSE LET member == members[i]
           backfilled_member ==
             [type |-> member.type, ref |-> member.ref, role |-> member.role]
       IN  IF member.type = "way"
           THEN LET way == way_version_at_time(member.ref, timestamp) IN
                IF way = <<>> THEN Raised
                ELSE LET linestring == get_geom_at_timestamp(way[1].nds, timestamp) IN
                     IF ~ linestring.ok THEN Raised
                     ELSE MembersLoop(members, timestamp, i + 1,
                            Append(out, backfilled_member @@ [geometry |-> linestring.val]))
           ELSE MembersLoop(members, timestamp, i + 1, Append(out, backfilled_member))

RECURSIVE MembersLoopDropRelations(_, _, _, _)
MembersLoopDropRelations(members, timestamp, i, out) ==
  IF i > Len(members) THEN Ok(out)
  ELSE IF members[i].type = "relation"
       THEN MembersLoopDropRelations(members, timestamp, i + 1, out)
       ELSE LET one == MembersLoop(<<members[i]>>, timestamp, 1, <<>>) IN
            IF ~ one.ok THEN Raised
            ELSE MembersLoopDropRelations(members, timestamp, i + 1, out \o one.val)

BackfillMembersDroppingRelations(members, timestamp) ==
  MembersLoopDropRelations(members, timestamp, 1, <<>>)

BackfillMembers(members, timestamp) == MembersLoop(members, timestamp, 1, <<>>)

get_osm_object(kind, id, version) ==
  LET got == ApiGet(kind, id, version) IN
  IF got = <<>> THEN Raised
  ELSE LET data == got[1]
           base == [id |-> data.id, version |-> data.version,
                    timestamp |-> data.timestamp]
       IN  CASE kind = "node" ->
                  Ok(base @@ [lat |-> data.lat, lon |-> data.lon])
             [] kind = "way" ->
                  LET geometry == get_geom_at_timestamp(data.nds, data.timestamp) IN
                  IF ~ geometry.ok THEN Raised
                  ELSE Ok(base @@ [nodes |-> data.nds, geometry |-> geometry.val])
             [] OTHER ->
                  LET members == BackfillMembers(data.members, data.timestamp) IN
                  IF ~ members.ok THEN Raised
                  ELSE Ok(base @@ [members |-> members.val])

---------------------------------------------------------------------------
(* thing_to_element *)

\* str() of a number.
Str(n) == ToString(n)

\* datetime.isoformat()
IsoFormat(t) == "T" \o ToString(t)

Element(tag, attrib, children) == [tag |-> tag, attrib |-> attrib, children |-> children]

NdElement(nd, node_version) ==
  Element("nd", [ref |-> Str(nd), lat |-> Str(node_version.lat),
                 lon |-> Str(node_version.lon)], <<>>)

\* for nd in nds: resolve at timestamp and append an nd element;
\* node_version.lat on None raises.
RECURSIVE NdLoop(_, _, _, _)
NdLoop(nds, timestamp, i, children) ==
  IF i > Len(nds) THEN Ok(children)
  ELSE LET node_version == node_version_at_time(nds[i], timestamp) IN
       IF node_version = <<>> THEN Raised
       ELSE NdLoop(nds, timestamp, i + 1, Append(children, NdElement(nds[i], node_version[1])))

\* for member in thing.members: the nd elements of a way member go to
\* thing_elem itself, ahead of the member element.
RECURSIVE MemberElemLoop(_, _, _, _)
MemberElemLoop(members, timestamp, i, children) ==
  IF i > Len(members) THEN Ok(children)
  ELSE LET member == members[i]
           attrib == [type |-> member.type, ref |-> Str(member.ref), role |-> member.role]
       IN  CASE member.type = "node" ->
                  LET node_version == node_version_at_time(member.ref, timestamp) IN
                  IF node_version = <<>> THEN Raised
                  ELSE MemberElemLoop(members, timestamp, i + 1,
                         Append(children,
                                Element("member",
                                        attrib @@ [lat |-> Str(node_version[1].lat),
                                                   lon |-> Str(node_version[1].lon)],
                                        <<>>)))
             [] member.type = "way" ->
                  LET way_version == way_version_at_time(member.ref, timestamp) IN
                  IF way_version = <<>> THEN Raised
                  ELSE LET nds == NdLoop(way_version[1].nds, way_version[1].timestamp,
                                         1, children)
                       IN  IF ~ nds.ok THEN Raised
                           ELSE MemberElemLoop(members, timestamp, i + 1,
                                  Append(nds.val, Element("member", attrib, <<>>)))
             [] OTHER ->
                  MemberElemLoop(members, timestamp, i + 1,
                                 Append(children, Element("member", attrib, <<>>)))

thing_to_element(kind, thing) ==
  LET attrib == [id |-> Str(thing.id), version |-> Str(thing.version),
                 timestamp |-> IsoFormat(thing.timestamp) \o "Z"]
  IN  CASE kind = "node" ->
             LET with_lat == IF thing.lat # 0 THEN attrib @@ [lat |-> Str(thing.lat)]
                             ELSE attrib
                 with_lon == IF thing.lon # 0 THEN with_lat @@ [lon |-> Str(thing.lon)]
                             ELSE with_lat
             IN  Ok(Element("node", with_lon, <<>>))
        [] kind = "way" ->
             LET children == NdLoop(thing.nds, thing.timestamp, 1, <<>>) IN
             IF ~ children.ok THEN Raised
             ELSE Ok(Element("way", attrib, children.val))
        [] OTHER ->
             LET children == MemberElemLoop(thing.members, thing.timestamp, 1, <<>>) IN
             IF ~ children.ok THEN Raised
             ELSE Ok(Element("relation", attrib, children.val))

---------------------------------------------------------------------------
(* Backfilling one stored entity version *)

NdLists == {<<1>>, <<1, 2>>, <<2, 1, 2>>}

MemberLists ==
  { <<Member("way", 1, "outer")>>,
    <<Member("node", 1, "label"), Member("relation", 1, "subarea"), Member("way", 1, "outer")>>,
    <<Member("way", 1, "inner"), Member("relation", 1, ""), Member("node", 2, "admin_centre")>>,
    <<Member("node", 2, ""), Member("node", 1, ""), Member("relation", 1, "")>>,
    <<Member("relation", 1, "subarea")>> }

GetOsmObject ==
  \E kind \in Kinds :
    \E id \in IdsOf(kind), version \in 1..MaxTs :
      /\ call = NoCall
      /\ call' = [fn |-> "get_osm_object", kind |-> kind, id |-> id, arg |-> version]
      /\ ret' = get_osm_object(kind, id, version)
      /\ UNCHANGED <<store, request>>

ThingToElement ==
  \E kind \in Kinds :
    \E id \in IdsOf(kind) :
      \E version \in 1..Len(HistoryOf(kind, id)) :
        /\ call = NoCall
        /\ call' = [fn |-> "thing_to_element", kind |-> kind, id |-> id, arg |-> version]
        /\ ret' = thing_to_element(kind, HistoryOf(kind, id)[version])
        /\ UNCHANGED <<store, request>>

\* A store of time-ordered histories: two nodes, a way and a relation.
InitStore ==
  /\ \E stamps \in [NodeIds -> OrderedStamps] :
       node_history = [id \in NodeIds |-> NodeHistoryOf(id, stamps[id])]
  /\ \E stamps \in [WayIds -> OrderedStamps], nds \in [WayIds -> NdLists] :
       way_history = [id \in WayIds |-> WayHistoryOf(id, stamps[id], nds[id])]
  /\ \E stamps \in [RelIds -> OrderedStamps], members \in [RelIds -> MemberLists] :
       rel_history = [id \in RelIds |-> RelHistoryOf(id, stamps[id], members[id])]

InitBackfill ==
  /\ InitStore
  /\ zero_reply = "notfound"
  /\ call = NoCall
  /\ ret = <<>>
  /\ IdleRequest

NextBackfill == GetOsmObject \/ ThingToElement

SpecBackfill == InitBackfill /\ [][NextBackfill]_vars

---------------------------------------------------------------------------
(* process_changeset and its two callers *)

Verbs == {"create", "modify", "delete"}

ChangeVersions == {1, 2}

\* One (verb, obj) pair of the changeset download; obj carries its class,
\* id and version.
Change(verb, kind, id, version) ==
  [verb |-> verb, kind |-> kind, id |-> id, version |-> version]

Changes == {Change(verb, kind, 1, version) :
              verb \in Verbs, kind \in Kinds, version \in ChangeVersions}

ChangeLists == {cs \in SeqsUpTo(Changes, MaxChanges) : Len(cs) >= 1}

NeedsOldOnlyOnModify(verb) == verb = "modify"

\* if verb in ('modify', 'delete')
NeedsOld(verb) == verb \in {"modify", "delete"}

PrependChange(changes, change) == <<change>> \o changes

\* output['changes'].append(change)
AppendChange(changes, change) == Append(changes, change)

\* The document process_changeset returns; the changeset's metadata is
\* copied through and left out.
Document(changes) ==
  [meta |-> [version |-> "0.6", generator |-> "pyosm"], changes |-> changes]

\* json.dump / jsonify with the datetime serializer: datetimes become
\* ISO-8601 strings.
JsonEntity(entity) == [entity EXCEPT !.timestamp = IsoFormat(@)]

JsonChange(change) == [part \in DOMAIN change |-> JsonEntity(change[part])]

JsonDump(document) ==
  [document EXCEPT !.changes = [i \in 1..Len(@) |-> JsonChange(@[i])]]

\* changeset_changes = a.get_changeset_download(changeset_id)
GetChangesetDownload ==
  /\ pc = "start"
  /\ \E changes \in ChangeLists : changeset_changes' = changes
  /\ pc' = "loop"
  /\ idx' = 1
  /\ UNCHANGED <<store, call, ret, output, result, file, response>>

\* One pass of the for loop; an exception of get_osm_object leaves
\* process_changeset.
ProcessChange ==
  /\ pc = "loop"
  /\ idx <= Len(changeset_changes)
  /\ LET obj == changeset_changes[idx]
         verb == obj.verb
         old_obj == get_osm_object(obj.kind, obj.id, obj.version - 1)
         new_obj == get_osm_object(obj.kind, obj.id, obj.version)
     IN  IF (NeedsOld(verb) /\ ~ old_obj.ok) \/ ~ new_obj.ok
         THEN /\ pc' = "raised"
              /\ UNCHANGED <<idx, output>>
         ELSE /\ output' = AppendChange(output,
                              IF NeedsOld(verb)
                              THEN [old |-> old_obj.val, new |-> new_obj.val]
                              ELSE [new |-> new_obj.val])
              /\ idx' = idx + 1
              /\ pc' = pc
  /\ UNCHANGED <<store, call, ret, changeset_changes, result, file, response>>

\* return output
Return ==
  /\ pc = "loop"
  /\ idx > Len(changeset_changes)
  /\ result' = <<Document(output)>>
  /\ pc' = "returned"
  /\ UNCHANGED <<store, call, ret, changeset_changes, idx, output, file, response>>

\* __main__ after process_changeset returned: open the file and dump.
Main ==
  /\ pc = "returned"
  /\ file' = <<JsonDump(result[1])>>
  /\ pc' = "written"
  /\ UNCHANGED <<store, call, ret, changeset_changes, idx, output, result, response>>

\* full_changeset after process_changeset returned: jsonify(result).
FullChangeset ==
  /\ pc = "returned"
  /\ response' = <<JsonDump(result[1])>>
  /\ pc' = "responded"
  /\ UNCHANGED <<store, call, ret, changeset_changes, idx, output, result, file>>

\* A store with two nodes, a way over both and a relation over the way.
InitChangeset ==
  /\ \E stamps \in OrderedStamps :
       node_history = [id \in NodeIds |->
                         NodeHistoryOf(id, IF id = 1 THEN stamps ELSE <<1>>)]
  /\ \E stamps \in OrderedStamps :
       way_history = [id \in WayIds |-> WayHistoryOf(id, stamps, <<1, 2>>)]
  /\ rel_history = [id \in RelIds |->
                      RelHistoryOf(id, <<1, 2>>,
                                   <<Member("node", 1, "label"),
                                     Member("relation", 1, "subarea"),
                                     Member("way", 1, "outer")>>)]
  /\ zero_reply \in {"notfound", "latest"}
  /\ call = NoCall
  /\ ret = <<>>
  /\ changeset_changes = <<>>
  /\ pc = "start"
  /\ idx = 0
  /\ output = <<>>
  /\ result = <<>>
  /\ file = <<>>
  /\ response = <<>>

NextChangeset == GetChangesetDownload \/ ProcessChange \/ Return \/ Main \/ FullChangeset

SpecChangeset == InitChangeset /\ [][NextChangeset]_vars

---------------------------------------------------------------------------
(* The backfillers' claims *)

ObjectCall(kind) ==
  /\ call.fn = "get_osm_object"
  /\ call.kind = kind
  /\ call.arg \in 1..Len(HistoryOf(kind, call.id))

ElementCall(kind) ==
  /\ call.fn = "thing_to_element"
  /\ call.kind = kind

\* The stored entity version the call names.
CalledThing == HistoryOf(call.kind, call.id)[call.arg]

Resolves(nd, T) == node_version_at_time(nd, T) # <<>>

IsNd(e) == e.tag = "nd"

IsMemberElem(e) == e.tag = "member"

\* C4 as stated: the geometry of a backfilled line has one entry per element
\* of point_ids, in order, the i-th being (point_id, lat, lon) of the version
\* of point_ids[i] the resolver returns for the line version's timestamp.
C4_GeometryEntriesArePointIdLatLon ==
  (ObjectCall("way") /\ ret.ok) =>
    LET line == CalledThing
        geometry == ret.val.geometry
    IN  /\ Len(geometry) = Len(line.nds)
        /\ \A i \in 1..Len(line.nds) :
             LET v == node_version_at_time(line.nds[i], line.timestamp) IN
             /\ v # <<>>
             /\ geometry[i] = <<line.nds[i], v[1].lat, v[1].lon>>

\* C4 (amended): backfilling a line version succeeds exactly when every
\* point of point_ids has a version at or before the line version's
\* timestamp, and then yields one entry per element of point_ids, in order,
\* repeated ids included, from the version of point_ids[i] the resolver
\* returns for the line version's own timestamp: get_osm_object gives the
\* pair (lon, lat) in 'geometry', the point id standing at the same index
\* of 'nodes'; thing_to_element gives an nd element (ref, lat, lon) of
\* strings.
C4_LineGeometryInPointOrder ==
  /\ ObjectCall("way") =>
       LET line == CalledThing IN
       /\ ret.ok <=> \A i \in 1..Len(line.nds) : Resolves(line.nds[i], line.timestamp)
       /\ ret.ok =>
            /\ ret.val.nodes = line.nds
            /\ Len(ret.val.geometry) = Len(line.nds)
            /\ \A i \in 1..Len(line.nds) :
                 LET v == node_version_at_time(line.nds[i], line.timestamp) IN
                 /\ v # <<>>
                 /\ ret.val.geometry[i] = <<v[1].lon, v[1].lat>>
  /\ ElementCall("way") =>
       LET line == CalledThing IN
       /\ ret.ok <=> \A i \in 1..Len(line.nds) : Resolves(line.nds[i], line.timestamp)
       /\ ret.ok =>
            /\ Len(ret.val.children) = Len(line.nds)
            /\ \A i \in 1..Len(line.nds) :
                 LET v == node_version_at_time(line.nds[i], line.timestamp) IN
                 /\ v # <<>>
                 /\ ret.val.children[i] =
                      Element("nd", [ref |-> Str(line.nds[i]), lat |-> Str(v[1].lat),
                                     lon |-> Str(v[1].lon)], <<>>)

\* A line with a repeated point id, backfilled at a time after which one of
\* its points changed again.
C4_Witness ==
  /\ ObjectCall("way")
  /\ ret.ok
  /\ \E i, j \in 1..Len(CalledThing.nds) : i # j /\ CalledThing.nds[i] = CalledThing.nds[j]
  /\ \E nd \in Range(CalledThing.nds) :
       \E V \in Range(get_node_history(nd)) : V.timestamp > CalledThing.timestamp

\* C5: in a backfilled polygon, a line member is the line version resolved at
\* the polygon's timestamp, and its points are resolved at that line
\* version's own timestamp, not at the polygon's.
C5_LineMemberPointsAtLineTimestamp ==
  /\ (ObjectCall("relation") /\ ret.ok) =>
       LET polygon == CalledThing IN
       /\ Len(ret.val.members) = Len(polygon.members)
       /\ \A i \in 1..Len(polygon.members) :
            polygon.members[i].type = "way" =>
              LET line == way_version_at_time(polygon.members[i].ref, polygon.timestamp) IN
              /\ line # <<>>
              /\ "geometry" \in DOMAIN ret.val.members[i]
              /\ Len(ret.val.members[i].geometry) = Len(line[1].nds)
              /\ \A j \in 1..Len(line[1].nds) :
                   LET v == node_version_at_time(line[1].nds[j], line[1].timestamp) IN
                   v # <<>> => ret.val.members[i].geometry[j] = <<v[1].lon, v[1].lat>>
  /\ (ElementCall("relation") /\ ret.ok) =>
       LET polygon == CalledThing IN
       \A e \in Range(SelectSeq(ret.val.children, IsNd)) :
         \E i \in 1..Len(polygon.members) :
           /\ polygon.members[i].type = "way"
           /\ LET line == way_version_at_time(polygon.members[i].ref, polygon.timestamp) IN
              /\ line # <<>>
              /\ \E j \in 1..Len(line[1].nds) :
                   LET v == node_version_at_time(line[1].nds[j], line[1].timestamp) IN
                   /\ v # <<>>
                   /\ e = NdElement(line[1].nds[j], v[1])

\* What holds of thing_to_element alone: every nd element of a polygon comes
\* from a line member's points resolved at the line version's own timestamp.
ElementResolvesAtLineTimestamp ==
  (ElementCall("relation") /\ ret.ok) =>
    LET polygon == CalledThing IN
    \A e \in Range(SelectSeq(ret.val.children, IsNd)) :
      \E i \in 1..Len(polygon.members) :
        /\ polygon.members[i].type = "way"
        /\ LET line == way_version_at_time(polygon.members[i].ref, polygon.timestamp) IN
           /\ line # <<>>
           /\ \E j \in 1..Len(line[1].nds) :
                LET v == node_version_at_time(line[1].nds[j], line[1].timestamp) IN
                /\ v # <<>>
                /\ e = NdElement(line[1].nds[j], v[1])

MemberKeys == {"type", "ref", "role"}

C9_PointMembersCarryCoordinates ==
  /\ (ObjectCall("relation") /\ ret.ok) =>
       LET polygon == CalledThing IN
       /\ Len(ret.val.members) = Len(polygon.members)
       /\ \A i \in 1..Len(polygon.members) :
            /\ ret.val.members[i].type = polygon.members[i].type
            /\ ret.val.members[i].ref = polygon.members[i].ref
            /\ polygon.members[i].type = "node" =>
                 LET v == node_version_at_time(polygon.members[i].ref, polygon.timestamp) IN
                 /\ v # <<>>
                 /\ "lat" \in DOMAIN ret.val.members[i]
                 /\ "lon" \in DOMAIN ret.val.members[i]
                 /\ ret.val.members[i].lat = v[1].lat
                 /\ ret.val.members[i].lon = v[1].lon
  /\ (ElementCall("relation") /\ ret.ok) =>
       LET polygon == CalledThing
           elems == SelectSeq(ret.val.children, IsMemberElem)
       IN  /\ Len(elems) = Len(polygon.members)
           /\ \A i \in 1..Len(polygon.members) :
                /\ elems[i].attrib.type = polygon.members[i].type
                /\ elems[i].attrib.ref = Str(polygon.members[i].ref)
                /\ polygon.members[i].type = "node" =>
                     LET v == node_version_at_time(polygon.members[i].ref,
                                                   polygon.timestamp) IN
                     /\ v # <<>>
                     /\ "lat" \in DOMAIN elems[i].attrib
                     /\ "lon" \in DOMAIN elems[i].attrib
                     /\ elems[i].attrib.lat = Str(v[1].lat)
                     /\ elems[i].attrib.lon = Str(v[1].lon)

\* What holds of thing_to_element alone: the second half of C9.
ElementPointMembersCarryCoordinates ==
  (ElementCall("relation") /\ ret.ok) =>
    LET polygon == CalledThing
        elems == SelectSeq(ret.val.children, IsMemberElem)
    IN  /\ Len(elems) = Len(polygon.members)
        /\ \A i \in 1..Len(polygon.members) :
             polygon.members[i].type = "node" =>
               LET v == node_version_at_time(polygon.members[i].ref, polygon.timestamp) IN
               /\ v # <<>>
               /\ "lat" \in DOMAIN elems[i].attrib
               /\ elems[i].attrib.lat = Str(v[1].lat)
               /\ elems[i].attrib.lon = Str(v[1].lon)

---------------------------------------------------------------------------
(* The assembler's claims *)

\* The kind of a backfilled entity, read off the keys get_osm_object gave it.
KindShape(entity) ==
  CASE "lat" \in DOMAIN entity -> "node"
    [] "nodes" \in DOMAIN entity -> "way"
    [] "members" \in DOMAIN entity -> "relation"
    [] OTHER -> "none"

Fetched == pc # "start"

\* C2: every change of the result has 'old' exactly when its operation is
\* modify or delete and always has 'new'; 'new' is the entity at the change's
\* reported version and 'old' the entity at version - 1, both of the change's
\* kind and id.
C2_OldIffModifyOrDelete ==
  \A i \in 1..Len(output) :
    LET c == changeset_changes[i]
        o == output[i]
    IN  /\ ("old" \in DOMAIN o) <=> (c.verb \in {"modify", "delete"})
        /\ "new" \in DOMAIN o
        /\ o.new.id = c.id
        /\ o.new.version = c.version
        /\ KindShape(o.new) = c.kind
        /\ "old" \in DOMAIN o =>
             /\ o.old.id = c.id
             /\ o.old.version = c.version - 1
             /\ KindShape(o.old) = c.kind

\* What holds of the loop whatever the store answers: the presence law and
\* the 'new' half of C2.
OldPresenceLaw ==
  \A i \in 1..Len(output) :
    LET c == changeset_changes[i]
        o == output[i]
    IN  /\ ("old" \in DOMAIN o) <=> (c.verb \in {"modify", "delete"})
        /\ "new" \in DOMAIN o
        /\ o.new.id = c.id
        /\ o.new.version = c.version
        /\ KindShape(o.new) = c.kind
        /\ ("old" \in DOMAIN o /\ c.version >= 2) =>
             /\ o.old.id = c.id
             /\ o.old.version = c.version - 1
             /\ KindShape(o.old) = c.kind

CorrespondsTo(changes, received) ==
  \A i \in 1..Len(changes) :
    /\ i <= Len(received)
    /\ "new" \in DOMAIN changes[i]
    /\ changes[i].new.id = received[i].id
    /\ changes[i].new.version = received[i].version
    /\ KindShape(changes[i].new) = received[i].kind

\* C3: the changes of a returned result are the received changes, one entry
\* each and in the received order (the i-th entry's 'new' has the i-th
\* change's kind, id and version); while the loop runs the output is the
\* same for the changes handled so far.
C3_ChangesInReceivedOrder ==
  /\ Fetched =>
       /\ Len(output) <= Len(changeset_changes)
       /\ pc = "loop" => Len(output) = idx - 1
       /\ CorrespondsTo(output, changeset_changes)
  /\ result # <<>> =>
       /\ Len(result[1].changes) = Len(changeset_changes)
       /\ CorrespondsTo(result[1].changes, changeset_changes)

\* A result returned for two changes of different entities.
C3_Witness ==
  /\ pc = "returned"
  /\ result # <<>>
  /\ Len(changeset_changes) = 2
  /\ changeset_changes[1].kind # changeset_changes[2].kind
  /\ changeset_changes[1].version # changeset_changes[2].version

\* The point has no version at or before T: no history, or a first version
\* after T.
Unborn(nd, T) ==
  \/ get_node_history(nd) = <<>>
  \/ get_node_history(nd)[1].timestamp > T

\* The change makes the loop backfill a line version one of whose points has
\* no version at or before that line version's timestamp.
ReferencesUnbornPoint(c) ==
  /\ c.kind = "way"
  /\ \E version \in {c.version} \cup
                     (IF c.verb \in {"modify", "delete"} THEN {c.version - 1} ELSE {}) :
       LET line == ApiGet("way", c.id, version) IN
       /\ line # <<>>
       /\ \E nd \in Range(line[1].nds) : Unborn(nd, line[1].timestamp)

\* C7: when a change of the changeset backfills a line one of whose points
\* has no version at or before the line's timestamp, process_changeset never
\* gets past that change and never returns, so no result exists, not one of
\* the changes backfilled before it either, the CLI writes no file and the
\* HTTP handler builds no body.
C7_UnbornPointFailsWholeChangeset ==
  (Fetched /\ \E i \in 1..Len(changeset_changes) :
                ReferencesUnbornPoint(changeset_changes[i])) =>
    /\ pc \in {"loop", "raised"}
    /\ \A i \in 1..Len(changeset_changes) :
         ReferencesUnbornPoint(changeset_changes[i]) => idx <= i
    /\ result = <<>>
    /\ file = <<>>
    /\ response = <<>>

\* The second change fails on an unborn point after the first was backfilled.
C7_Witness ==
  /\ pc = "raised"
  /\ Len(changeset_changes) = 2
  /\ ~ ReferencesUnbornPoint(changeset_changes[1])
  /\ ReferencesUnbornPoint(changeset_changes[2])
  /\ Len(output) = 1
  /\ result = <<>>
  /\ file = <<>>

\* C8: a modify or delete change whose reported version is 1 or less fails
\* the whole call: the loop never gets past it and nothing is returned.
C8_OldVersionBelowOneFailsCall ==
  \A i \in 1..Len(changeset_changes) :
    (changeset_changes[i].verb \in {"modify", "delete"}
       /\ changeset_changes[i].version - 1 < 1) =>
      /\ idx <= i
      /\ result = <<>>

===========================================================================
